---- MODULE Spec2Model ----
(***************************************************************************)
(* FileShare: the fetch -> extract -> detect -> build -> install pipeline  *)
(* (get_repo), remove_repo and clean_tempfolder of the two variants of the *)
(* program: src/fileshare.py ("v2") and src/FileShare/fileshare.py ("v1"). *)
(*                                                                         *)
(* A behaviour is a sequence of command-line invocations of one variant on *)
(* one machine.  The filesystem (the workspace /tmp/fsdl, /usr/local/bin   *)
(* and /usr/share) outlives each invocation; everything else is the state  *)
(* of the running process, or a record of what that process has done.      *)
(*                                                                         *)
(* Strings the program splits (the repo path) are sequences of one-        *)
(* character strings; a package name is such a sequence too.               *)
(***************************************************************************)
EXTENDS Integers, Sequences, FiniteSets, TLC

VARIABLES
    world,        \* the environment of the behaviour: "single" or "repeat" (see Init)
    variant,      \* which program file runs: "v2" = src/fileshare.py, "v1" = src/FileShare/fileshare.py
    tmpExists,    \* /tmp/fsdl exists
    wsFiles,      \* fixed-name files in /tmp/fsdl (candidates, markers)
    wsBuilt,      \* build outputs in /tmp/fsdl, as <<directory, name>>
    bin,          \* names of the files in /usr/local/bin
    shareDirs,    \* names of the directories in /usr/share
    shareFiles,   \* <<directory, file>> for the files in /usr/share/<directory>/
    pc,           \* position of the running process
    command,      \* sys.argv[1] of the running process
    repo_path,    \* get_repo / remove_repo: repo_path
    flags,        \* get_repo: flags
    downloaded,   \* get_repo: downloaded
    i,            \* get_repo: position in files_to_try / in the extraction list
    res,          \* get_repo: res, the response of the last probe
    reponame,     \* get_repo / remove_repo: reponame
    strategy,     \* detect_and_build: the branch taken ("none" before the call)
    binary_path,  \* get_repo: binary_path (NoPath is None)
    todo,         \* the run() calls the current function still has to make
    result,       \* how the process ended: "running", "return", "exit1", "raise"
    probes,       \* history: the candidates an HTTP GET was issued for, in order
    ok200,        \* history: the candidates whose response status was exactly 200
    extracted,    \* history: the extract_zip calls, in order
    ran,          \* history: the run() calls, in order, with their exit status
    scriptRan,    \* history: install.sh was executed by this process
    fs0,          \* history: the filesystem when this process started
    prev,         \* history: what the previous process was and did
    runs          \* number of processes started so far

vars == <<world, variant, tmpExists, wsFiles, wsBuilt, bin, shareDirs, shareFiles,
          pc, command, repo_path, flags, downloaded, i, res, reponame, strategy,
          binary_path, todo, result, probes, ok200, extracted, ran, scriptRan,
          fs0, prev, runs>>

fsVars == <<tmpExists, wsFiles, wsBuilt, bin, shareDirs, shareFiles>>

----------------------------------------------------------------------------
(* Bounds *)

\* Number of command-line invocations in one behaviour.
MaxRuns == 2

----------------------------------------------------------------------------
(* Program constants *)

\* Mutant of files_to_try: main.zip is probed again after install.sh.
files_to_try_again == <<"main.zip", "app.zip", "root.zip", "install.sh", "main.zip">>

\* get_repo: files_to_try
files_to_try == <<"main.zip", "app.zip", "root.zip", "install.sh">>

\* get_repo: the list the extraction loop walks
archives == <<"main.zip", "app.zip", "root.zip">>

\* detect_and_build: the marker files, in the order of the if / elif chain
Markers == <<"main.py", "main.go", "main.cpp", "Makefile">>

\* None
NoPath == <<>>

Range(s) == {s[k] : k \in 1..Len(s)}

----------------------------------------------------------------------------
(* The environment: command lines, HTTP responses, archive contents *)

\* sys.argv[2] in world "single": owner "o", packages "n" and "m";
\* well-formed, decorated with slashes that main strips, and malformed (one
\* segment, three segments, an empty middle segment).
RepoArgs ==
    { <<"o", "/", "n">>,
      <<"o", "/", "m">>,
      <<"/", "o", "/", "n", "/">>,
      <<"n">>,
      <<"o", "/", "n", "/", "x">>,
      <<"o", "/", "/", "n">> }

\* sys.argv[2] of "get": in world "repeat" always package o/n.
GetArgs == IF world = "single" THEN RepoArgs ELSE {<<"o", "/", "n">>}

\* sys.argv[2] of "remove": in world "repeat" always package n, with or
\* without its owner.
RemoveArgs == IF world = "single" THEN RepoArgs ELSE {<<"n">>, <<"o", "/", "n">>}

\* sys.argv[3:], as far as each variant reads it; --ignore-default, which
\* only v1 knows, is passed in world "single" only.
FlagSets ==
    IF variant = "v2" \/ world = "repeat" THEN SUBSET {"--no-unzip"}
    ELSE SUBSET {"--no-unzip", "--ignore-default"}

\* What requests.get does: raises, or returns a response with a status code.
Responses ==
    {[exc |-> TRUE, status |-> 0]} \cup
    {[exc |-> FALSE, status |-> s] : s \in {200, 204, 404}}

NoResponse == [exc |-> FALSE, status |-> 0]

\* What an archive holds: not a ZIP at all, or a set of files.
BadZip == [exc |-> "BadZipFile", files |-> {}]

\* An archive that zipfile rejects with an exception other than BadZipFile,
\* as a damaged compressed stream (zlib.error) does.
Damaged == [exc |-> "other", files |-> {}]

Payloads ==
    {BadZip, Damaged} \cup
    {[exc |-> "none", files |-> F] : F \in SUBSET (Range(Markers) \cup {"install.sh"})}

\* World "repeat": what the server's archives hold, the same at every fetch.
ArchiveContent(fname) ==
    CASE fname = "main.zip" -> [exc |-> "none", files |-> {"main.go"}]
      [] fname = "app.zip"  -> [exc |-> "none", files |-> {"main.py"}]
      [] OTHER              -> BadZip

\* What extracting archive fname may find.
PayloadsOf(fname) ==
    IF world = "single" THEN Payloads ELSE {ArchiveContent(fname)}

----------------------------------------------------------------------------
(* Pure functions *)

\* str.strip("/") of main: drop leading slashes ...
RECURSIVE LStrip(_)
LStrip(s) ==
    IF s # <<>> /\ Head(s) = "/" THEN LStrip(Tail(s)) ELSE s

\* ... and trailing ones.
RECURSIVE RStrip(_)
RStrip(s) ==
    IF s # <<>> /\ s[Len(s)] = "/" THEN RStrip(SubSeq(s, 1, Len(s) - 1)) ELSE s

Strip(s) == RStrip(LStrip(s))

\* str.split("/"): the segments between the separators, empty ones included.
RECURSIVE SplitFrom(_, _, _)
SplitFrom(s, k, cur) ==
    IF k > Len(s) THEN <<cur>>
    ELSE IF s[k] = "/" THEN <<cur>> \o SplitFrom(s, k + 1, <<>>)
    ELSE SplitFrom(s, k + 1, Append(cur, s[k]))

Split(s) == SplitFrom(s, 1, <<>>)

\* "/" in repo_path
HasSlash(s) == \E k \in 1..Len(s) : s[k] = "/"

\* Path(binary_path).name
BaseName(p) == p[2]

\* os.path.exists(binary_path), relative to /tmp/fsdl after os.chdir(TMP_DIR)
PathExists(p) == tmpExists /\ p \in wsBuilt

----------------------------------------------------------------------------
(* extract_zip *)

\* except zipfile.BadZipFile
Caught(exc) == exc = "BadZipFile"

----------------------------------------------------------------------------
(* run *)

\* Mutant of Failed: only a status above 1 counts as a failure.
FailedAboveOne(rc) == rc > 1

\* result.returncode != 0
Failed(rc) == rc # 0

----------------------------------------------------------------------------
(* detect_and_build *)

\* Mutant of Branch: the go test placed before the python test.
BranchGoFirst(files) ==
    IF "main.go" \in files THEN "go"
    ELSE IF "main.py" \in files THEN "python"
    ELSE IF "main.cpp" \in files THEN "cpp"
    ELSE IF "Makefile" \in files THEN "make"
    ELSE "unknown"

\* The branch of the if / elif chain that a workspace holding `files` takes.
Branch(files) ==
    IF "main.py" \in files THEN "python"
    ELSE IF "main.go" \in files THEN "go"
    ELSE IF "main.cpp" \in files THEN "cpp"
    ELSE IF "Makefile" \in files THEN "make"
    ELSE "unknown"

\* The run() calls of each branch, in order.
BuildCommands(s) ==
    CASE s = "python" -> <<"pip", "pyinstaller">>
      [] s = "go"     -> <<"go">>
      [] s = "cpp"    -> <<"g++">>
      [] s = "make"   -> <<"make">>
      [] OTHER        -> <<>>

\* Mutant of BuildOutput: v1's fixed output names in both variants.
BuildOutputFixedName(v, s, name) ==
    CASE s = "python" -> <<"dist", <<"main">>>>
      [] s \in {"go", "cpp"} -> <<"", <<"app_bin">>>>
      [] OTHER -> NoPath

\* The file a branch builds: v2 names it after the package, v1 does not.
BuildOutput(v, s, name) ==
    CASE s = "python" -> IF v = "v2" THEN <<"dist", name>> ELSE <<"dist", <<"main">>>>
      [] s \in {"go", "cpp"} -> IF v = "v2" THEN <<"", name>> ELSE <<"", <<"app_bin">>>>
      [] OTHER -> NoPath

\* Mutant of BuildReturn: the python branch returns its path unchecked.
BuildReturnUnchecked(v, s, name, built) == BuildOutput(v, s, name)

\* What detect_and_build returns once its run() calls have succeeded.
\* v2's python branch returns the path only if it exists (else falls off the
\* end: None); every other branch returns its value unconditionally.
BuildReturn(v, s, name, built) ==
    IF v = "v2" /\ s = "python" /\ BuildOutput(v, s, name) \notin built
    THEN NoPath
    ELSE BuildOutput(v, s, name)

----------------------------------------------------------------------------
(* install_binary *)

\* Mutant of InstallCommands: the copy into /usr/share/<reponame> left out.
InstallCommandsNoShareCopy(v) ==
    IF v = "v2" THEN <<"chmod", "cp_bin", "mkdir">>
    ELSE <<"chmod", "cp_bin", "mkdir", "rm_tmp">>

\* The run() calls of install_binary, in order; v1 ends by deleting /tmp/fsdl.
InstallCommands(v) ==
    IF v = "v2" THEN <<"chmod", "cp_bin", "mkdir", "cp_share">>
    ELSE <<"chmod", "cp_bin", "mkdir", "cp_share", "rm_tmp">>

\* dest_bin: /usr/local/bin/<bin_name>
DestBin(path) == BaseName(path)

\* share_dir: /usr/share/<reponame>
ShareDir(name) == name

\* Mutant of Copied: a copy onto an existing target unlinks it and writes
\* nothing.
CopiedUnlessPresent(entries, target) ==
    IF target \in entries THEN entries \ {target} ELSE entries \cup {target}

\* What a successful "sudo cp <file> <target>" leaves of the directory
\* holding the target: the target is there, created or overwritten.
Copied(entries, target) == entries \cup {target}

----------------------------------------------------------------------------
(* remove_repo *)

\* bin_path: /usr/local/bin/<reponame>
BinPath(name) == name

\* share_path: /usr/share/<reponame>
SharePath(name) == name

\* Mutant of RmRf: the command exits 0 without deleting its target.
RmRfKeeps(entries, name) == entries

\* What a successful "sudo rm -rf <path>" leaves of the directory holding it.
RmRf(entries, name) == entries \ {name}

----------------------------------------------------------------------------
(* get_repo: the decisions *)

\* Mutant of Recorded: any 2xx status accepted (res.ok).
RecordedAny2xx(r) == ~r.exc /\ r.status >= 200 /\ r.status < 300

\* res.status_code == 200, reached only if requests.get did not raise
Recorded(r) == ~r.exc /\ r.status = 200

\* Mutant of NothingDownloaded: the wrong list tested (not files_to_try).
NothingToTry == files_to_try = <<>>

\* not downloaded
NothingDownloaded == downloaded = <<>>

\* "--no-unzip" in flags
no_unzip == "--no-unzip" \in flags

\* "--ignore-default" in flags (v1 only)
ignore_default == "--ignore-default" \in flags

\* The extraction loop is entered: always in v2 (the --no-unzip return comes
\* first), unless --no-unzip in v1.
ExtractionEntered == variant = "v2" \/ ~no_unzip

\* get_repo returns right after the fetch: v2 with --no-unzip.
ReturnsAfterFetch == variant = "v2" /\ no_unzip

\* Mutant of ScriptChosen: v1's rule in both variants.
ScriptChosenOnlyIfAsked == ignore_default /\ "install.sh" \in Range(downloaded)

\* The install.sh branch is taken.
ScriptChosen ==
    IF variant = "v2" THEN "install.sh" \in Range(downloaded)
    ELSE ignore_default /\ "install.sh" \in Range(downloaded)

----------------------------------------------------------------------------
(* The state after construction *)

\* The filesystem as a value.
FS == [tmpExists |-> tmpExists, wsFiles |-> wsFiles, wsBuilt |-> wsBuilt,
       bin |-> bin, shareDirs |-> shareDirs, shareFiles |-> shareFiles]

NoProcess == [command |-> "none", reponame |-> <<>>,
              binary_path |-> NoPath, ran |-> <<>>, result |-> "none",
              fresh |-> TRUE]

\* What a process leaves for the record when the next one starts; fresh:
\* it started without a workspace.
Summary == [command |-> command, reponame |-> reponame,
            binary_path |-> binary_path, ran |-> ran, result |-> result,
            fresh |-> ~fs0.tmpExists]

\* No process has run yet.  The machine may already hold package "n", whole
\* or in part, as an earlier install or its interruption leaves it; the
\* workspace does not exist.  Two kinds of behaviour are explored:
\*   "single": one invocation, with any command line of RepoArgs and any
\*             archive content of Payloads;
\*   "repeat": up to MaxRuns invocations, one after the other, for package
\*             o/n, against a server whose archives do not change.
Init ==
    /\ world \in {"single", "repeat"}
    /\ variant \in {"v2", "v1"}
    /\ tmpExists = FALSE
    /\ wsFiles = {}
    /\ wsBuilt = {}
    /\ bin \in SUBSET {<<"n">>}
    /\ shareDirs \in SUBSET {<<"n">>}
    /\ shareFiles \in SUBSET {<<d, d>> : d \in shareDirs}
    /\ pc = "off"
    /\ command = "none"
    /\ repo_path = <<>>
    /\ flags = {}
    /\ downloaded = <<>>
    /\ i = 1
    /\ res = NoResponse
    /\ reponame = <<>>
    /\ strategy = "none"
    /\ binary_path = NoPath
    /\ todo = <<>>
    /\ result = "none"
    /\ probes = <<>>
    /\ ok200 = {}
    /\ extracted = <<>>
    /\ ran = <<>>
    /\ scriptRan = FALSE
    /\ fs0 = FS
    /\ prev = NoProcess
    /\ runs = 0

----------------------------------------------------------------------------
(* main *)

\* A new process may start when none is running.
CanStart ==
    \/ pc = "off"
    \/ pc = "done" /\ world = "repeat" /\ runs < MaxRuns

\* A fresh process: locals unset, nothing done yet.
Fresh(cmd, path) ==
    /\ command' = cmd
    /\ repo_path' = path
    /\ downloaded' = <<>>
    /\ i' = 1
    /\ res' = NoResponse
    /\ strategy' = "none"
    /\ binary_path' = NoPath
    /\ todo' = <<>>
    /\ probes' = <<>>
    /\ ok200' = {}
    /\ extracted' = <<>>
    /\ ran' = <<>>
    /\ scriptRan' = FALSE
    /\ fs0' = FS
    /\ prev' = Summary
    /\ runs' = runs + 1

\* The process ends: get_repo / remove_repo / clean_tempfolder returns
\* ("return"), sys.exit(1) is called ("exit1"), or an exception escapes
\* ("raise").
Ends(how) == pc' = "done" /\ result' = how

\* The exit status of a finished process.
ExitCode == IF result = "return" THEN 0 ELSE 1

\* main, command "get": strip the argument, call get_repo, which creates the
\* workspace (os.makedirs, exist_ok) and enters the fetch loop.
StartGet ==
    /\ CanStart
    /\ \E arg \in GetArgs, fl \in FlagSets :
        /\ Fresh("get", Strip(arg))
        /\ flags' = fl
    /\ reponame' = <<>>
    /\ tmpExists' = TRUE
    /\ pc' = "fetch"
    /\ result' = "running"
    /\ UNCHANGED <<world, variant, wsFiles, wsBuilt, bin, shareDirs, shareFiles>>

----------------------------------------------------------------------------
(* get_repo *)

\* One iteration of the fetch loop: GET the candidate; on status 200 write it
\* into the workspace and record it; on anything else, or an exception, go on.
Probe ==
    /\ pc = "fetch"
    /\ LET fname == files_to_try[i] IN
       \E r \in Responses :
        /\ res' = r
        /\ probes' = Append(probes, fname)
        /\ ok200' = IF r.exc = FALSE /\ r.status = 200 THEN ok200 \cup {fname} ELSE ok200
        /\ IF Recorded(r)
           THEN /\ wsFiles' = wsFiles \cup {fname}
                /\ downloaded' = Append(downloaded, fname)
           ELSE UNCHANGED <<wsFiles, downloaded>>
    /\ IF i < Len(files_to_try)
       THEN i' = i + 1 /\ pc' = "fetch"
       ELSE i' = 1 /\ pc' = "fetched"
    /\ UNCHANGED <<world, variant, tmpExists, wsBuilt, bin, shareDirs, shareFiles,
                   command, repo_path, flags, reponame, strategy, binary_path,
                   todo, result, extracted, ran, scriptRan, fs0, prev, runs>>

\* After the loop: nothing downloaded is fatal; --no-unzip returns (v2) or
\* skips the extraction (v1); otherwise the extraction loop starts.
AfterFetch ==
    /\ pc = "fetched"
    /\ res' = NoResponse
    /\ IF NothingDownloaded THEN Ends("exit1")
       ELSE IF ReturnsAfterFetch THEN Ends("return")
       ELSE IF ExtractionEntered THEN pc' = "extract" /\ result' = result
       ELSE pc' = "dispatch" /\ result' = result
    /\ UNCHANGED <<world, variant, fsVars, command, repo_path, flags, downloaded, i,
                   reponame, strategy, binary_path, todo, probes, ok200,
                   extracted, ran, scriptRan, fs0, prev, runs>>

\* One iteration of the extraction loop: an archive that exists in the
\* workspace is handed to extract_zip, which unpacks it into the workspace or
\* reports a bad ZIP file and returns; any other exception of zipfile is not
\* caught and escapes get_repo.
Extract ==
    /\ pc = "extract"
    /\ LET fname == archives[i] IN
       IF tmpExists /\ fname \in wsFiles
       THEN \E p \in PayloadsOf(fname) :
              /\ extracted' = Append(extracted, [name |-> fname, bad |-> p.exc # "none"])
              /\ wsFiles' = wsFiles \cup p.files
              /\ IF p.exc = "none" \/ Caught(p.exc)
                 THEN /\ result' = result
                      /\ IF i < Len(archives)
                         THEN i' = i + 1 /\ pc' = "extract"
                         ELSE i' = 1 /\ pc' = "dispatch"
                 ELSE Ends("raise") /\ UNCHANGED i
       ELSE /\ UNCHANGED <<extracted, wsFiles, result>>
            /\ IF i < Len(archives)
               THEN i' = i + 1 /\ pc' = "extract"
               ELSE i' = 1 /\ pc' = "dispatch"
    /\ UNCHANGED <<world, variant, tmpExists, wsBuilt, bin, shareDirs, shareFiles,
                   command, repo_path, flags, downloaded, res, reponame,
                   strategy, binary_path, todo, probes, ok200, ran,
                   scriptRan, fs0, prev, runs>>

\* user, reponame = repo_path.split("/") raises unless there are exactly two
\* segments; then the install.sh branch or detect_and_build is chosen.
Dispatch ==
    /\ pc = "dispatch"
    /\ LET segs == Split(repo_path) IN
       IF Len(segs) # 2
       THEN Ends("raise") /\ UNCHANGED reponame
       ELSE /\ reponame' = segs[2]
            /\ pc' = IF ScriptChosen THEN "script" ELSE "detect"
            /\ result' = result
    /\ UNCHANGED <<world, variant, fsVars, command, repo_path, flags, downloaded, i,
                   res, strategy, binary_path, todo, probes, ok200, extracted,
                   ran, scriptRan, fs0, prev, runs>>

\* os.chmod, then subprocess.run of install.sh; whatever it returns, get_repo
\* returns.  What the script itself does to the machine is not modelled.
RunScript ==
    /\ pc = "script"
    /\ \E rc \in {0, 1} : scriptRan' = TRUE
    /\ Ends("return")
    /\ UNCHANGED <<world, variant, fsVars, command, repo_path, flags, downloaded, i,
                   res, reponame, strategy, binary_path, todo, probes, ok200,
                   extracted, ran, fs0, prev, runs>>

\* detect_and_build is called: the if / elif chain picks its branch.
Detect ==
    /\ pc = "detect"
    /\ strategy' = Branch(IF tmpExists THEN wsFiles ELSE {})
    /\ todo' = BuildCommands(strategy')
    /\ pc' = "build"
    /\ UNCHANGED <<world, variant, fsVars, command, repo_path, flags, downloaded, i,
                   res, reponame, binary_path, result, probes, ok200,
                   extracted, ran, scriptRan, fs0, prev, runs>>

\* run(cmd) of a build command.  A non-zero status exits the process.  A
\* compiler that succeeds has written its output file; PyInstaller's output
\* may or may not be where the code looks for it; pip and make produce
\* nothing the pipeline tracks.
RunBuild ==
    /\ pc = "build"
    /\ todo # <<>>
    /\ LET cmd == Head(todo) IN
       \E rc \in {0, 1} :
        /\ ran' = Append(ran, [cmd |-> cmd, rc |-> rc])
        /\ IF Failed(rc)
           THEN Ends("exit1") /\ UNCHANGED <<todo, wsBuilt>>
           ELSE /\ todo' = Tail(todo)
                /\ pc' = pc
                /\ result' = result
                /\ CASE cmd \in {"go", "g++"} ->
                          wsBuilt' = wsBuilt \cup {BuildOutput(variant, strategy, reponame)}
                     [] cmd = "pyinstaller" ->
                          \E made \in BOOLEAN :
                            wsBuilt' = IF made
                                       THEN wsBuilt \cup {BuildOutput(variant, strategy, reponame)}
                                       ELSE wsBuilt
                     [] OTHER -> UNCHANGED wsBuilt
    /\ UNCHANGED <<world, variant, tmpExists, wsFiles, bin, shareDirs, shareFiles,
                   command, repo_path, flags, downloaded, i, res, reponame,
                   strategy, binary_path, probes, ok200, extracted, scriptRan,
                   fs0, prev, runs>>

\* detect_and_build returns; get_repo calls install_binary if a path came
\* back and it exists, and otherwise reports and returns.
AfterBuild ==
    /\ pc = "build"
    /\ todo = <<>>
    /\ binary_path' = BuildReturn(variant, strategy, reponame, wsBuilt)
    /\ IF binary_path' # NoPath /\ PathExists(binary_path')
       THEN /\ pc' = "install"
            /\ todo' = InstallCommands(variant)
            /\ result' = result
       ELSE Ends("return") /\ UNCHANGED todo
    /\ UNCHANGED <<world, variant, fsVars, command, repo_path, flags, downloaded, i,
                   res, reponame, strategy, probes, ok200, extracted, ran,
                   scriptRan, fs0, prev, runs>>

----------------------------------------------------------------------------
(* install_binary *)

\* run(cmd) of an install step: chmod +x, cp to /usr/local/bin/<bin_name>,
\* mkdir -p /usr/share/<reponame>, cp into it, and in v1 rm -rf /tmp/fsdl.
\* A non-zero status exits the process; after the last step install_binary
\* and get_repo return.
RunInstall ==
    /\ pc = "install"
    /\ todo # <<>>
    /\ LET cmd == Head(todo) IN
       \E rc \in {0, 1} :
        /\ ran' = Append(ran, [cmd |-> cmd, rc |-> rc])
        /\ IF Failed(rc)
           THEN Ends("exit1") /\ UNCHANGED <<todo, fsVars>>
           ELSE /\ todo' = Tail(todo)
                /\ IF todo' = <<>> THEN Ends("return")
                   ELSE pc' = pc /\ result' = result
                /\ bin' = IF cmd = "cp_bin"
                          THEN Copied(bin, DestBin(binary_path)) ELSE bin
                /\ shareDirs' = IF cmd = "mkdir"
                                THEN shareDirs \cup {ShareDir(reponame)} ELSE shareDirs
                /\ shareFiles' = IF cmd = "cp_share"
                                 THEN Copied(shareFiles, <<ShareDir(reponame), BaseName(binary_path)>>)
                                 ELSE shareFiles
                /\ IF cmd = "rm_tmp"
                   THEN tmpExists' = FALSE /\ wsFiles' = {} /\ wsBuilt' = {}
                   ELSE UNCHANGED <<tmpExists, wsFiles, wsBuilt>>
    /\ UNCHANGED <<world, variant, command, repo_path, flags, downloaded, i, res,
                   reponame, strategy, binary_path, probes, ok200, extracted,
                   scriptRan, fs0, prev, runs>>

----------------------------------------------------------------------------
(* remove_repo *)

\* main, command "remove": strip the argument, call remove_repo, which takes
\* the part after the slash as the package name (the unpacking raises unless
\* there are exactly two parts), or the whole argument if it has no slash.
StartRemove ==
    /\ CanStart
    /\ \E arg \in RemoveArgs :
        LET path == Strip(arg) IN
        /\ Fresh("remove", path)
        /\ IF HasSlash(path) /\ Len(Split(path)) # 2
           THEN Ends("raise") /\ reponame' = <<>>
           ELSE /\ reponame' = IF HasSlash(path) THEN Split(path)[2] ELSE path
                /\ pc' = "rm_bin"
                /\ result' = "running"
    /\ flags' = {}
    /\ UNCHANGED <<world, variant, fsVars>>

\* If /usr/local/bin/<reponame> exists, rm -rf it; else report it not found.
RemoveBin ==
    /\ pc = "rm_bin"
    /\ IF BinPath(reponame) \in bin
       THEN \E rc \in {0, 1} :
              /\ ran' = Append(ran, [cmd |-> "rm_bin", rc |-> rc])
              /\ IF Failed(rc)
                 THEN Ends("exit1") /\ UNCHANGED bin
                 ELSE /\ bin' = RmRf(bin, BinPath(reponame))
                      /\ pc' = "rm_share"
                      /\ result' = result
       ELSE /\ pc' = "rm_share"
            /\ UNCHANGED <<ran, bin, result>>
    /\ UNCHANGED <<world, variant, tmpExists, wsFiles, wsBuilt, shareDirs, shareFiles,
                   command, repo_path, flags, downloaded, i, res, reponame,
                   strategy, binary_path, todo, probes, ok200, extracted,
                   scriptRan, fs0, prev, runs>>

\* If /usr/share/<reponame> exists, rm -rf it; else report it not found.
RemoveShare ==
    /\ pc = "rm_share"
    /\ IF SharePath(reponame) \in shareDirs
       THEN \E rc \in {0, 1} :
              /\ ran' = Append(ran, [cmd |-> "rm_share", rc |-> rc])
              /\ IF Failed(rc)
                 THEN Ends("exit1") /\ UNCHANGED <<shareDirs, shareFiles>>
                 ELSE /\ shareDirs' = RmRf(shareDirs, SharePath(reponame))
                      /\ shareFiles' = {f \in shareFiles : f[1] \in shareDirs'}
                      /\ Ends("return")
       ELSE /\ Ends("return")
            /\ UNCHANGED <<ran, shareDirs, shareFiles>>
    /\ UNCHANGED <<world, variant, tmpExists, wsFiles, wsBuilt, bin, command,
                   repo_path, flags, downloaded, i, res, reponame, strategy,
                   binary_path, todo, probes, ok200, extracted, scriptRan,
                   fs0, prev, runs>>

----------------------------------------------------------------------------
(* clean_tempfolder *)

\* main, command "clean"
StartClean ==
    /\ CanStart
    /\ Fresh("clean", <<>>)
    /\ flags' = {}
    /\ reponame' = <<>>
    /\ pc' = "clean"
    /\ result' = "running"
    /\ UNCHANGED <<world, variant, fsVars>>

\* run("sudo rm -rf /tmp/fsdl")
RunClean ==
    /\ pc = "clean"
    /\ \E rc \in {0, 1} :
        /\ ran' = Append(ran, [cmd |-> "rm_tmp", rc |-> rc])
        /\ IF Failed(rc)
           THEN Ends("exit1") /\ UNCHANGED <<tmpExists, wsFiles, wsBuilt>>
           ELSE /\ tmpExists' = FALSE
                /\ wsFiles' = {}
                /\ wsBuilt' = {}
                /\ Ends("return")
    /\ UNCHANGED <<world, variant, bin, shareDirs, shareFiles, command, repo_path,
                   flags, downloaded, i, res, reponame, strategy, binary_path,
                   todo, probes, ok200, extracted, scriptRan, fs0, prev, runs>>

----------------------------------------------------------------------------
(* Specification *)

Next ==
    \/ StartGet
    \/ Probe
    \/ AfterFetch
    \/ Extract
    \/ Dispatch
    \/ RunScript
    \/ Detect
    \/ RunBuild
    \/ AfterBuild
    \/ RunInstall
    \/ StartRemove
    \/ RemoveBin
    \/ RemoveShare
    \/ StartClean
    \/ RunClean

Spec == Init /\ [][Next]_vars

\* A step of the running process.  The program is one thread that blocks on
\* each HTTP request and each external command.
Step ==
    \/ Probe
    \/ AfterFetch
    \/ Extract
    \/ Dispatch
    \/ RunScript
    \/ Detect
    \/ RunBuild
    \/ AfterBuild
    \/ RunInstall
    \/ RemoveBin
    \/ RemoveShare
    \/ RunClean

\* Every HTTP request and every external command eventually returns, and the
\* interpreter goes on to the next statement; nothing obliges the user to
\* start another process.
FairSpec == Spec /\ WF_vars(Step)

----------------------------------------------------------------------------
(* Vocabulary of the properties *)

\* The build toolchain commands.
BuildTools == {"pip", "pyinstaller", "go", "g++", "make"}

\* The toolchain commands that belong to each strategy.
ToolsOf(s) ==
    CASE s = "python" -> {"pip", "pyinstaller"}
      [] s = "go"     -> {"go"}
      [] s = "cpp"    -> {"g++"}
      [] s = "make"   -> {"make"}
      [] OTHER        -> {}

\* The strategy each marker stands for, in the order of Markers.
StrategyOf == <<"python", "go", "cpp", "make">>

\* The commands this process has invoked through run().
Invoked == {ran[k].cmd : k \in 1..Len(ran)}

\* The commands this process has invoked through run() and that exited 0.
Succeeded == {ran[k].cmd : k \in {j \in 1..Len(ran) : ran[j].rc = 0}}

\* The archives handed to extract_zip by this process.
ExtractedNames == {extracted[k].name : k \in 1..Len(extracted)}

\* /usr/local/bin and /usr/share are as they were when the process started.
SystemDirsUntouched ==
    /\ bin = fs0.bin
    /\ shareDirs = fs0.shareDirs
    /\ shareFiles = fs0.shareFiles

\* A repo path of exactly two non-empty segments separated by one "/".
WellFormed(path) ==
    \E k \in 2..(Len(path) - 1) :
        /\ path[k] = "/"
        /\ \A j \in 1..Len(path) : j # k => path[j] # "/"

----------------------------------------------------------------------------
(* C1 *)

\* C1 (as claimed): in src/fileshare.py, whenever install.sh is present in
\* the workspace when the install phase is reached, however it got there,
\* detect_and_build is not called and no build toolchain command is run.
C1_ScriptInWorkspaceBypassesBuild ==
    ( /\ variant = "v2"
      /\ command = "get"
      /\ pc \in {"detect", "build", "install", "done"}
      /\ tmpExists
      /\ "install.sh" \in wsFiles )
    => ( /\ strategy = "none"
         /\ Invoked \cap BuildTools = {} )

----------------------------------------------------------------------------
(* C2 *)

\* C2: detect_and_build selects the strategy of the first marker present in
\* the workspace, in the order main.py, main.go, main.cpp, Makefile, or
\* "unknown" when none is present; the toolchain commands it runs are those
\* of the selected strategy only.
C2_FirstMarkerWins ==
    /\ pc \in {"build", "install"} =>
         \/ \E k \in 1..Len(Markers) :
              /\ Markers[k] \in wsFiles
              /\ \A j \in 1..(k - 1) : Markers[j] \notin wsFiles
              /\ strategy = StrategyOf[k]
         \/ /\ \A k \in 1..Len(Markers) : Markers[k] \notin wsFiles
            /\ strategy = "unknown"
    /\ strategy # "none" => Invoked \cap BuildTools \subseteq ToolsOf(strategy)

\* C2 witness: main.go, main.cpp and Makefile are all present, the go
\* strategy was selected and its compiler has run.
C2_Witness ==
    /\ pc = "build"
    /\ {"main.go", "main.cpp", "Makefile"} \subseteq wsFiles
    /\ "main.py" \notin wsFiles
    /\ strategy = "go"
    /\ Invoked = {"go"}

----------------------------------------------------------------------------
(* C3 *)

\* C3: the fetch loop probes main.zip, app.zip, root.zip, install.sh in that
\* order and always all four; a candidate is recorded in downloaded, and is in
\* the workspace, exactly if its response status was 200.
C3_ProbesAllRecords200 ==
    command = "get" =>
      /\ probes = SubSeq(files_to_try, 1, Len(probes))
      /\ pc # "fetch" => probes = files_to_try
      /\ Range(downloaded) = ok200
      /\ pc \in {"fetch", "fetched"} => ok200 \subseteq wsFiles

\* C3 witness: the first probe failed, the second was recorded, the third
\* failed, and the last one answered 204 and was not recorded.
C3_Witness ==
    /\ pc = "fetched"
    /\ downloaded = <<"app.zip">>
    /\ res.status = 204
    /\ probes = files_to_try

----------------------------------------------------------------------------
(* C4 *)

\* C4: if no candidate is retrieved, get_repo exits with status 1, having
\* extracted nothing, run no install script and no command, and left
\* /usr/local/bin and /usr/share as they were.
C4_NothingRetrievedAborts ==
    (command = "get" /\ pc = "done" /\ ok200 = {}) =>
      /\ result = "exit1"
      /\ ExitCode = 1
      /\ extracted = <<>>
      /\ ~scriptRan
      /\ strategy = "none"
      /\ ran = <<>>
      /\ SystemDirsUntouched

\* C4 witness: all four probes failed on a machine that holds package n, and
\* the process has exited.
C4_Witness ==
    /\ command = "get"
    /\ pc = "done"
    /\ probes = files_to_try
    /\ ok200 = {}
    /\ result = "exit1"
    /\ bin = {<<"n">>}

----------------------------------------------------------------------------
(* C5 *)

\* This process is a remove_repo of the package that the previous process, a
\* remove_repo that returned, removed.
SecondRemove ==
    /\ command = "remove"
    /\ result # "raise"
    /\ prev.command = "remove"
    /\ prev.result = "return"
    /\ prev.reponame = reponame

\* C5: once remove_repo(x) has completed, a second remove_repo(x) does not
\* fail, finds neither /usr/local/bin/x nor /usr/share/x (so it runs no rm),
\* and leaves the filesystem exactly as the first call left it.
C5_RemoveIdempotent ==
    SecondRemove =>
      /\ result \in {"running", "return"}
      /\ ran = <<>>
      /\ FS = fs0
      /\ BinPath(reponame) \notin bin
      /\ SharePath(reponame) \notin shareDirs

\* C5 witness: the first remove_repo deleted both the binary and the share
\* directory, and the second one has returned.
C5_Witness ==
    /\ SecondRemove
    /\ pc = "done"
    /\ result = "return"
    /\ prev.ran = <<[cmd |-> "rm_bin", rc |-> 0], [cmd |-> "rm_share", rc |-> 0]>>

----------------------------------------------------------------------------
(* C6 *)

\* This process is a remove_repo of the package for which the previous
\* process, a get_repo of src/fileshare.py, called install_binary.
RemoveAfterInstall ==
    /\ variant = "v2"
    /\ command = "remove"
    /\ prev.command = "get"
    /\ prev.binary_path # NoPath
    /\ prev.ran # <<>>
    /\ prev.ran[Len(prev.ran)].cmd \in Range(InstallCommands(variant))
    /\ prev.reponame = reponame

\* C6: after a get_repo('owner/name') that ran install_binary, to completion
\* or up to a failing step, a remove_repo('name') that returns leaves neither
\* the executable install_binary placed in /usr/local/bin nor /usr/share/name.
C6_RemoveReversesInstall ==
    (RemoveAfterInstall /\ pc = "done" /\ result = "return") =>
      /\ DestBin(prev.binary_path) \notin bin
      /\ ShareDir(prev.reponame) \notin shareDirs
      /\ \A f \in shareFiles : f[1] # ShareDir(prev.reponame)

\* C6 witness: install_binary copied the executable to /usr/local/bin and
\* created the share directory, then failed at the copy into it; remove_repo
\* deleted both and returned.
C6_Witness ==
    /\ RemoveAfterInstall
    /\ pc = "done"
    /\ result = "return"
    /\ prev.ran[Len(prev.ran)] = [cmd |-> "cp_share", rc |-> 1]
    /\ Succeeded = {"rm_bin", "rm_share"}

----------------------------------------------------------------------------
(* C7 *)

\* C7 (as claimed): a repo path that is not two non-empty segments separated
\* by one "/" makes get_repo fail before any HTTP GET: no candidate is probed
\* and nothing is written into the workspace.
C7_MalformedPathFailsBeforeFetch ==
    (command = "get" /\ ~WellFormed(repo_path)) =>
      /\ probes = <<>>
      /\ wsFiles = fs0.wsFiles
      /\ pc = "done" => result # "return"

----------------------------------------------------------------------------
(* C8 *)

\* A get_repo of src/fileshare.py, without --no-unzip, that retrieved
\* install.sh and is past the fetch.
ScriptRetrieved ==
    /\ variant = "v2"
    /\ command = "get"
    /\ ~no_unzip
    /\ pc \notin {"fetch", "fetched"}
    /\ "install.sh" \in ok200

\* C8 (as claimed): whenever install.sh is among the retrieved candidates, no
\* retrieved archive is ever extracted and no build is performed.
C8_ScriptRetrievedNothingExtracted ==
    ScriptRetrieved =>
      /\ extracted = <<>>
      /\ strategy = "none"
      /\ Invoked \cap BuildTools = {}

\* C8 (amended): whenever install.sh is among the retrieved candidates, no
\* build is performed, and a get_repo that returns has run install.sh; the
\* retrieved archives are nevertheless all handed to extract_zip, in the
\* order main.zip, app.zip, root.zip, before install.sh runs.
C8_ScriptRetrievedNoBuild ==
    ScriptRetrieved =>
      /\ strategy = "none"
      /\ Invoked \cap BuildTools = {}
      /\ (pc = "done" /\ result = "return") => scriptRan
      /\ scriptRan => pc = "done"
      /\ (pc \in {"dispatch", "script"} \/ scriptRan) =>
           /\ ok200 \cap Range(archives) \subseteq ExtractedNames
           /\ \A a, b \in 1..Len(extracted) :
                a < b => \E x, y \in 1..Len(archives) :
                           /\ x < y
                           /\ archives[x] = extracted[a].name
                           /\ archives[y] = extracted[b].name

\* C8 witness: only root.zip and install.sh were retrieved; root.zip was
\* extracted, bringing main.go, and install.sh was run without any build.
C8_Witness ==
    /\ ScriptRetrieved
    /\ pc = "done"
    /\ scriptRan
    /\ downloaded = <<"root.zip", "install.sh">>
    /\ extracted = <<[name |-> "root.zip", bad |-> FALSE]>>
    /\ "main.go" \in wsFiles

----------------------------------------------------------------------------
(* C9 *)

\* A get_repo of src/fileshare.py that retrieved no install.sh, selected the
\* go or the native strategy, and whose compiler exited 0.
CompiledFromSource ==
    /\ variant = "v2"
    /\ command = "get"
    /\ "install.sh" \notin ok200
    /\ strategy \in {"go", "cpp"}
    /\ Succeeded \cap {"go", "g++"} # {}

\* C9: then the build output is the single file <name> in the workspace, and
\* when get_repo returns, a copy made executable by chmod +x is at
\* /usr/local/bin/<name> and another inside /usr/share/<name>/.
C9_CompiledArtifactInstalled ==
    CompiledFromSource =>
      /\ <<"", reponame>> \in wsBuilt
      /\ wsBuilt \ fs0.wsBuilt \subseteq {<<"", reponame>>}
      /\ pc \in {"install", "done"} => binary_path = <<"", reponame>>
      /\ (pc = "done" /\ result = "return") =>
           /\ "chmod" \in Succeeded
           /\ reponame \in bin
           /\ reponame \in shareDirs
           /\ <<reponame, reponame>> \in shareFiles

\* C9 witness: only app.zip was retrieved, it held main.go, the go build
\* succeeded and get_repo returned with package n installed on a machine that
\* did not hold it.
C9_Witness ==
    /\ CompiledFromSource
    /\ pc = "done"
    /\ result = "return"
    /\ downloaded = <<"app.zip">>
    /\ strategy = "go"
    /\ fs0.bin = {}
    /\ fs0.shareDirs = {}
    /\ bin = {<<"n">>}
    /\ shareFiles = {<<(<<"n">>), (<<"n">>)>>}

----------------------------------------------------------------------------
(* C10 *)

\* C10 (as claimed, for src/fileshare.py): with --no-unzip and at least one
\* candidate retrieved, nothing is extracted, install.sh is not run, neither
\* detect_and_build nor install_binary is called, /usr/local/bin and
\* /usr/share are unchanged, and on return the workspace holds only the raw
\* files fetched in this run.
C10_NoUnzipLeavesOnlyFetchedFiles ==
    (variant = "v2" /\ command = "get" /\ no_unzip /\ pc = "done" /\ ok200 # {}) =>
      /\ result = "return"
      /\ extracted = <<>>
      /\ ~scriptRan
      /\ strategy = "none"
      /\ ran = <<>>
      /\ SystemDirsUntouched
      /\ tmpExists
      /\ wsFiles = ok200
      /\ wsBuilt = {}

----------------------------------------------------------------------------
(* C11 *)

\* The steps of install_binary.
InstallSteps == {"chmod", "cp_bin", "mkdir", "cp_share", "rm_tmp"}

\* C11: a command invoked through run() that returns a non-zero status is the
\* last thing its process does: the process has ended by sys.exit(1), with
\* exit code 1; the command was invoked once (no retry); nothing was invoked
\* after it; and if it was a build command, no step of install_binary ran.
C11_FailedCommandExits ==
    \A k \in 1..Len(ran) :
        ran[k].rc # 0 =>
          /\ k = Len(ran)
          /\ pc = "done"
          /\ result = "exit1"
          /\ ExitCode = 1
          /\ \A j \in 1..Len(ran) : j # k => ran[j].cmd # ran[k].cmd
          /\ ran[k].cmd \in BuildTools =>
                /\ Invoked \cap InstallSteps = {}
                /\ binary_path = NoPath
                /\ SystemDirsUntouched

\* C11 witness: the build and chmod succeeded, the copy to /usr/local/bin
\* failed, and the process ended there, /usr/share never touched.
C11_Witness ==
    /\ command = "get"
    /\ pc = "done"
    /\ result = "exit1"
    /\ ran = << [cmd |-> "go", rc |-> 0], [cmd |-> "chmod", rc |-> 0],
                [cmd |-> "cp_bin", rc |-> 1] >>
    /\ SystemDirsUntouched

----------------------------------------------------------------------------
(* C12 *)

\* get_repo has returned after install_binary ran its four steps, each
\* exiting 0.
InstalledAndReturned ==
    /\ command = "get"
    /\ pc = "done"
    /\ result = "return"
    /\ {"chmod", "cp_bin", "mkdir", "cp_share"} \subseteq Succeeded

\* C12 (as claimed, for src/fileshare.py): after get_repo completes a
\* successful install the workspace /tmp/fsdl no longer exists, and it does
\* not exist after clean_tempfolder has returned.
C12_WorkspaceGoneAfterInstall ==
    /\ (variant = "v2" /\ InstalledAndReturned) => ~tmpExists
    /\ (variant = "v2" /\ command = "clean" /\ pc = "done" /\ result = "return")
          => ~tmpExists

----------------------------------------------------------------------------
(* C13 *)

\* The run() calls of the previous process that exited 0.
PrevSucceeded ==
    {prev.ran[k].cmd : k \in {j \in 1..Len(prev.ran) : prev.ran[j].rc = 0}}

\* get_repo of src/fileshare.py has ended, every command it ran exited 0,
\* it followed a get_repo for the same package that installed it, and the
\* remote content is unchanged: the first call started without a workspace,
\* so the candidates the workspace held when the second started are those
\* the first retrieved, and the second retrieved exactly those (the content
\* of the archives is fixed when get_repo is repeated).
InstalledTwice ==
    /\ variant = "v2"
    /\ command = "get"
    /\ pc = "done"
    /\ \A k \in 1..Len(ran) : ran[k].rc = 0
    /\ prev.command = "get"
    /\ prev.reponame = reponame
    /\ prev.result = "return"
    /\ {"chmod", "cp_bin", "mkdir", "cp_share"} \subseteq PrevSucceeded
    /\ prev.fresh
    /\ Range(downloaded) = fs0.wsFiles \cap Range(files_to_try)

\* C13: then the second get_repo returned normally; unless --no-unzip was
\* given it chose the same build tools and ran the four install steps again,
\* the targets being there already; and /usr/local/bin/<name> and
\* /usr/share/<name>/ are as the first run left them.
C13_InstallRepeatable ==
    InstalledTwice =>
      /\ result = "return"
      /\ ExitCode = 0
      /\ SystemDirsUntouched
      /\ reponame \in bin
      /\ <<reponame, reponame>> \in shareFiles
      /\ ~no_unzip =>
            /\ ran = prev.ran
            /\ {"chmod", "cp_bin", "mkdir", "cp_share"} \subseteq Succeeded

\* C13 witness: main.zip (holding main.go) retrieved, built and installed
\* twice in a row for package n.
C13_Witness ==
    /\ InstalledTwice
    /\ ~no_unzip
    /\ downloaded = <<"main.zip">>
    /\ fs0.wsFiles = {"main.zip", "main.go"}
    /\ ran = << [cmd |-> "go", rc |-> 0], [cmd |-> "chmod", rc |-> 0],
                [cmd |-> "cp_bin", rc |-> 0], [cmd |-> "mkdir", rc |-> 0],
                [cmd |-> "cp_share", rc |-> 0] >>
    /\ fs0.bin = {<<"n">>}
    /\ bin = {<<"n">>}
    /\ shareFiles = {<<(<<"n">>), (<<"n">>)>>}

----------------------------------------------------------------------------
(* C14 *)

\* The files the workspace held when this process started that this
\* get_repo call has neither retrieved nor extracted from an archive it
\* retrieved.  (A workspace is left over only where get_repo is repeated,
\* and there the archives hold ArchiveContent.)
StaleFiles ==
    {f \in fs0.wsFiles :
        /\ f \notin ok200
        /\ \A a \in ok200 \cap Range(archives) : f \notin ArchiveContent(a).files}

\* C14 (as claimed, for src/fileshare.py): when detect_and_build inspects
\* the workspace, it holds only files retrieved or extracted by the current
\* get_repo call: nothing an earlier call left is there, only archives
\* retrieved by this call have been extracted, and no build output of an
\* earlier call is there to be installed.
C14_WorkspaceReplacedByFetch ==
    (variant = "v2" /\ command = "get" /\ pc \in {"detect", "build"}) =>
      /\ tmpExists
      /\ StaleFiles = {}
      /\ ExtractedNames \subseteq ok200
      /\ pc = "detect" => wsBuilt = {}

----------------------------------------------------------------------------
(* C15 *)

\* get_repo of src/fileshare.py retrieved no install.sh, detect_and_build
\* has returned, and the build yielded nothing to install: no marker was
\* found, or make exited 0, or PyInstaller exited 0 and the file
\* dist/<name> does not exist.
NothingToInstall ==
    /\ variant = "v2"
    /\ command = "get"
    /\ "install.sh" \notin ok200
    /\ pc \in {"install", "done"}
    /\ \/ strategy = "unknown"
       \/ strategy = "make" /\ "make" \in Succeeded
       \/ /\ strategy = "python"
          /\ "pyinstaller" \in Succeeded
          /\ ~PathExists(BuildOutput(variant, strategy, reponame))

\* C15: then detect_and_build reported no artifact, install_binary was not
\* called, /usr/local/bin and /usr/share are as they were, and get_repo has
\* returned normally, the process ending with exit code 0.
C15_NoArtifactReturnsNormally ==
    NothingToInstall =>
      /\ binary_path = NoPath
      /\ Invoked \cap InstallSteps = {}
      /\ SystemDirsUntouched
      /\ pc = "done"
      /\ result = "return"
      /\ ExitCode = 0

\* C15 witness: app.zip held main.py, pip and PyInstaller exited 0, but
\* dist/n is not there; get_repo returned without installing.
C15_Witness ==
    /\ NothingToInstall
    /\ strategy = "python"
    /\ ran = <<[cmd |-> "pip", rc |-> 0], [cmd |-> "pyinstaller", rc |-> 0]>>
    /\ wsBuilt = {}
    /\ result = "return"

----------------------------------------------------------------------------
(* C16 *)

\* get_repo of src/fileshare.py, called with a well-formed repo path, has
\* handed extract_zip an archive that zipfile did not accept.
BadArchiveSeen ==
    /\ variant = "v2"
    /\ command = "get"
    /\ WellFormed(repo_path)
    /\ \E k \in 1..Len(extracted) : extracted[k].bad

\* C16 (as claimed): a corrupt or non-archive payload never aborts get_repo:
\* no exception escapes, once the extraction loop is over every retrieved
\* archive has been handed to extract_zip, in the order main.zip, app.zip,
\* root.zip, and a get_repo that has ended got as far as running install.sh
\* or calling detect_and_build.
C16_BadArchiveNeverAborts ==
    BadArchiveSeen =>
      /\ result # "raise"
      /\ pc # "extract" =>
           /\ ok200 \cap Range(archives) \subseteq ExtractedNames
           /\ \A a, b \in 1..Len(extracted) :
                a < b => \E x, y \in 1..Len(archives) :
                           /\ x < y
                           /\ archives[x] = extracted[a].name
                           /\ archives[y] = extracted[b].name
      /\ pc = "done" => (scriptRan \/ strategy # "none")

----------------------------------------------------------------------------
(* C17 *)

\* A process is running.
Running == pc \notin {"off", "done"}

\* The process has ended: its function returned, it called sys.exit(1), or
\* an exception ended it.
Finished == pc = "done" /\ result \in {"return", "exit1", "raise"}

\* The stages of the three commands, in program order.
StageRank ==
    CASE pc = "off"      -> 0
      [] pc = "fetch"    -> 1
      [] pc = "fetched"  -> 2
      [] pc = "extract"  -> 3
      [] pc = "dispatch" -> 4
      [] pc = "script"   -> 5
      [] pc = "detect"   -> 5
      [] pc = "build"    -> 6
      [] pc = "install"  -> 7
      [] pc = "rm_bin"   -> 1
      [] pc = "rm_share" -> 2
      [] pc = "clean"    -> 1
      [] pc = "done"     -> 8

\* What is left to do in the current stage: candidates to probe, archives
\* to look at, commands to run.
StageLeft ==
    CASE pc = "fetch"   -> Len(files_to_try) - i
      [] pc = "extract" -> Len(archives) - i
      [] pc \in {"build", "install"} -> Len(todo)
      [] OTHER -> 0

\* A step of a process that leaves its stage moves to a later one.
Advances ==
    (Running /\ pc' # pc) => StageRank' > StageRank

\* A step of a process that stays in its stage leaves less to do there.
Progresses ==
    (Running /\ pc' = pc) => StageLeft' < StageLeft

\* A command that failed ended its process: it is not run again.
NoRetry ==
    \A k \in 1..Len(ran) : Failed(ran[k].rc) => (k = Len(ran) /\ Finished)

\* C17: every run of get_repo, remove_repo and clean_tempfolder ends, by
\* returning or by exiting the process, given that each HTTP request and
\* each external command returns: at most four HTTP probes are issued, no
\* step goes back to an earlier stage, every step within a stage leaves less
\* to do, and no step follows a failed command.
C17_EveryRunTerminates ==
    /\ [](Len(probes) <= 4)
    /\ [](NoRetry)
    /\ [][Advances /\ Progresses]_vars
    /\ Running ~> Finished

\* C17 witness: a get_repo that issued its four probes, extracted, built
\* and ran install_binary to the end.
C17_Witness ==
    /\ Finished
    /\ command = "get"
    /\ Len(probes) = 4
    /\ extracted # <<>>
    /\ ran # <<>>
    /\ ran[Len(ran)] = [cmd |-> "cp_share", rc |-> 0]

====
